---------------------------- MODULE Spec2Model ----------------------------
(***************************************************************************)
(* Outpatient No-Show Predictor (src/App.py): a Streamlit script that is   *)
(* re-run from top to bottom on every widget interaction.  The state is    *)
(* the content of appointments.csv, the value held by every widget, and    *)
(* what the last pass of the script computed and rendered.                 *)
(*                                                                         *)
(* A calendar date of the file is a triple <<year, month, day>>; a         *)
(* Timestamp is the number of days since 1970-01-01 (every timestamp of    *)
(* the table is a midnight, the file holds dates without a time of day).   *)
(* A DataFrame is the sequence of its rows, a boolean mask keeps the       *)
(* order of the rows it selects.                                           *)
(***************************************************************************)
EXTENDS Integers, Sequences, FiniteSets, TLC

VARIABLES
    csv_file,        \* rows of appointments.csv
    df,              \* the script's global df at the end of the last pass
    pred_reason,     \* st.selectbox "Reason for Visit"
    pred_day,        \* st.selectbox "Day of Week"
    date_range,      \* st.date_input "Select Appointment Range"
    status_choice,   \* st.multiselect key="pie_status"
    reason_choice,   \* st.multiselect key="bar_reason"
    day_choice,      \* st.multiselect key="line_day"
    risk,            \* what the risk predictor showed
    failed,          \* "none", or the exception that ended the pass
    filtered_df,
    total,
    no_shows,
    rate,
    pie_data,
    bar_data,
    reason_counts,
    trend_data,
    daily_trend,
    csv              \* data of the download button

vars == <<csv_file, df, pred_reason, pred_day, date_range, status_choice,
          reason_choice, day_choice, risk, failed, filtered_df, total,
          no_shows, rate, pie_data, bar_data, reason_counts, trend_data,
          daily_trend, csv>>

---------------------------------------------------------------------------
(* Bounds of the checked instances *)

\* rows of the table in the specification with every interaction
MaxRows == 2
\* rows of the table in the specifications of the predictor and the charts
MaxChartRows == 3
\* rows of the table in the specification of the risk category
MaxRiskRows == 5

---------------------------------------------------------------------------
(* Values *)

None == "<None>"
NaT == "<NaT>"
NotRendered == "<not rendered>"
All == "All"
NoShow == "No-show"

\* Code points of the strings of the model; Python orders str by them.
Chars(s) ==
    CASE s = "Cancelled" -> <<67, 97, 110, 99, 101, 108, 108, 101, 100>>
      [] s = "No-show"   -> <<78, 111, 45, 115, 104, 111, 119>>
      [] s = "Scheduled" -> <<83, 99, 104, 101, 100, 117, 108, 101, 100>>
      [] s = "Checkup"   -> <<67, 104, 101, 99, 107, 117, 112>>
      [] s = "Fever"     -> <<70, 101, 118, 101, 114>>
      [] s = "Monday"    -> <<77, 111, 110, 100, 97, 121>>
      [] s = "Tuesday"   -> <<84, 117, 101, 115, 100, 97, 121>>
      [] s = "Wednesday" -> <<87, 101, 100, 110, 101, 115, 100, 97, 121>>
      [] s = "Thursday"  -> <<84, 104, 117, 114, 115, 100, 97, 121>>
      [] s = "Friday"    -> <<70, 114, 105, 100, 97, 121>>
      [] s = "Saturday"  -> <<83, 97, 116, 117, 114, 100, 97, 121>>
      [] s = "Sunday"    -> <<83, 117, 110, 100, 97, 121>>

RECURSIVE SeqLess(_, _)
SeqLess(a, b) ==
    IF a = <<>> THEN b # <<>>
    ELSE IF b = <<>> THEN FALSE
    ELSE IF Head(a) # Head(b) THEN Head(a) < Head(b)
    ELSE SeqLess(Tail(a), Tail(b))

\* str.__lt__
StrLess(s, t) == SeqLess(Chars(s), Chars(t))

---------------------------------------------------------------------------
(* pandas *)

\* pd.to_datetime of a date string: days since 1970-01-01
to_datetime(ymd) ==
    LET y   == IF ymd[2] <= 2 THEN ymd[1] - 1 ELSE ymd[1]
        era == y \div 400
        yoe == y - era * 400
        mp  == (ymd[2] + 9) % 12
        doy == (153 * mp + 2) \div 5 + ymd[3] - 1
        doe == yoe * 365 + yoe \div 4 - yoe \div 100 + doy
    IN  era * 146097 + doe - 719468

DayNames == <<"Monday", "Tuesday", "Wednesday", "Thursday", "Friday",
              "Saturday", "Sunday">>

\* Series.dt.day_name(); 1970-01-01 was a Thursday
day_name(t) == DayNames[((t + 3) % 7) + 1]

\* load_data(): read the file, parse the dates, derive day_of_week
load_data(file) ==
    [i \in DOMAIN file |->
        [appointment_date |-> to_datetime(file[i].appointment_date),
         status           |-> file[i].status,
         reason_for_visit |-> file[i].reason_for_visit,
         day_of_week      |-> day_name(to_datetime(file[i].appointment_date))]]

Range(s) == {s[i] : i \in DOMAIN s}

\* Series.unique(): the values in order of first appearance
RECURSIVE unique(_)
unique(s) ==
    IF s = <<>> THEN <<>>
    ELSE LET u == unique(SubSeq(s, 1, Len(s) - 1))
         IN  IF s[Len(s)] \in Range(u) THEN u ELSE Append(u, s[Len(s)])

Column(frame, name) == [i \in DOMAIN frame |-> frame[i][name]]

\* frame[frame[name] == value]
WhereEq(frame, name, value) ==
    SelectSeq(frame, LAMBDA r : r[name] = value)

\* frame[frame[name].isin(values)]
WhereIsin(frame, name, values) ==
    SelectSeq(frame, LAMBDA r : r[name] \in values)

\* Series.min() and Series.max() of the timestamps; NaT on an empty frame
SeriesMin(s) ==
    IF s = <<>> THEN NaT
    ELSE CHOOSE m \in Range(s) : \A x \in Range(s) : m <= x

SeriesMax(s) ==
    IF s = <<>> THEN NaT
    ELSE CHOOSE m \in Range(s) : \A x \in Range(s) : m >= x

---------------------------------------------------------------------------
(* Python numbers *)

\* a / b (true division) as the exact quotient num/den.  The script only
\* compares the quotient, times 100, with 50 and with 20; for the sample
\* sizes of a table the double result and the exact quotient compare alike.
Quotient(a, b) == [num |-> a, den |-> b]

Times(q, k) == [num |-> q.num * k, den |-> q.den]

\* q > k
Greater(q, k) == q.num > k * q.den

---------------------------------------------------------------------------
(* The script *)

\* Fault-injected variant of RiskLevel: the thresholds are inclusive.
RiskLevelInclusive(prob) ==
    IF prob.num >= 50 * prob.den THEN "High"
    ELSE IF prob.num >= 20 * prob.den THEN "Moderate"
    ELSE "Low"

\* the message the predictor shows for a percentage
RiskLevel(prob) ==
    IF Greater(prob, 50) THEN "High"
    ELSE IF Greater(prob, 20) THEN "Moderate"
    ELSE "Low"

\* Fault-injected variant of RiskData: the day of the week is forgotten.
RiskDataAnyDay(frame, reason, day) ==
    SelectSeq(frame, LAMBDA r : r.reason_for_visit = reason)

\* risk_data: the rows of the combination
RiskData(frame, reason, day) ==
    SelectSeq(frame, LAMBDA r : /\ r.reason_for_visit = reason
                                /\ r.day_of_week = day)

\* Fault-injected variant of RiskCount: the kept appointments are counted.
RiskCountAttended(risk_data) == Len(WhereEq(risk_data, "status", "Scheduled"))

\* risk_count: the missed appointments among them
RiskCount(risk_data) == Len(WhereEq(risk_data, "status", NoShow))

\* risk predictor of the sidebar
RiskPredictor(frame, reason, day) ==
    LET risk_data == RiskData(frame, reason, day)
    IN  IF Len(risk_data) > 0
        THEN LET risk_count       == RiskCount(risk_data)
                 total_risk_cases == Len(risk_data)
                 prob == Times(Quotient(risk_count, total_risk_cases), 100)
             IN  [outcome |-> "Estimate",
                  level   |-> RiskLevel(prob),
                  prob    |-> prob,
                  total_risk_cases |-> total_risk_cases]
        ELSE [outcome |-> "InsufficientData"]

\* df.to_csv(index=False): the header, then one line per row
to_csv(frame) ==
    <<<<"appointment_date", "status", "reason_for_visit", "day_of_week">>>>
    \o [i \in DOMAIN frame |->
          <<frame[i].appointment_date, frame[i].status,
            frame[i].reason_for_visit, frame[i].day_of_week>>]

\* value=(min_date, max_date) of the date input
DefaultDateRange(frame) ==
    <<SeriesMin(Column(frame, "appointment_date")),
      SeriesMax(Column(frame, "appointment_date"))>>

\* the global date filter
DateFilter(frame, range) ==
    SelectSeq(frame, LAMBDA r : /\ r.appointment_date >= range[1]
                                /\ r.appointment_date <= range[2])

\* Fault-injected variant of Rate: the guard on total is missing.
RateUnguarded(n, t) == Times(Quotient(n, t), 100)

\* rate = (no_shows / total * 100) if total > 0 else 0
Rate(n, t) ==
    IF t > 0 THEN Times(Quotient(n, t), 100) ELSE Quotient(0, 1)

get_options_with_all(frame, column_name) ==
    <<All>> \o SortSeq(unique(Column(frame, column_name)), StrLess)

\* Fault-injected variant of PieData: an empty selection counts as "All".
PieDataEmptyIsAll(filtered, choice) ==
    IF All \notin choice /\ choice # {}
    THEN WhereIsin(filtered, "status", choice)
    ELSE filtered

PieData(filtered, choice) ==
    IF All \notin choice THEN WhereIsin(filtered, "status", choice)
    ELSE filtered

BarData(filtered, choice) ==
    LET missed == WhereEq(filtered, "status", NoShow)
    IN  IF All \notin choice
        THEN WhereIsin(missed, "reason_for_visit", choice)
        ELSE missed

TrendData(filtered, choice) ==
    IF All \notin choice THEN WhereIsin(filtered, "day_of_week", choice)
    ELSE filtered

CountEq(frame, name, value) == Len(WhereEq(frame, name, value))

\* the lines of value_counts before they are sorted: one (Reason, Count)
\* line per value, in order of first appearance
CountLines(frame) ==
    LET keys == unique(Column(frame, "reason_for_visit"))
    IN  [j \in DOMAIN keys |->
           [Reason |-> keys[j],
            Count  |-> CountEq(frame, "reason_for_visit", keys[j])]]

\* sort_values(ascending=False): highest count first, lines with equal
\* counts stay in the order they had
RECURSIVE SortDescending(_)
SortDescending(lines) ==
    IF lines = <<>> THEN <<>>
    ELSE LET sorted == SortDescending(SubSeq(lines, 1, Len(lines) - 1))
             x == lines[Len(lines)]
             k == Cardinality({i \in DOMAIN sorted : sorted[i].Count >= x.Count})
         IN  SubSeq(sorted, 1, k) \o <<x>> \o SubSeq(sorted, k + 1, Len(sorted))

RECURSIVE SortAscending(_)
SortAscending(lines) ==
    IF lines = <<>> THEN <<>>
    ELSE LET sorted == SortAscending(SubSeq(lines, 1, Len(lines) - 1))
             x == lines[Len(lines)]
             k == Cardinality({i \in DOMAIN sorted : sorted[i].Count <= x.Count})
         IN  SubSeq(sorted, 1, k) \o <<x>> \o SubSeq(sorted, k + 1, Len(sorted))

\* Fault-injected variant of value_counts: lowest count first.
value_counts_ascending(frame) == SortAscending(CountLines(frame))

\* Series.value_counts().reset_index()
value_counts(frame) == SortDescending(CountLines(frame))

\* order of the group keys (appointment_date, status)
KeyLess(a, b) ==
    \/ a[1] < b[1]
    \/ a[1] = b[1] /\ StrLess(a[2], b[2])

\* Fault-injected variant of GroupSizes: groupby(..., sort=False), the
\* groups come in order of first appearance.
GroupSizesUnsorted(frame) ==
    LET keyOf(r) == <<r.appointment_date, r.status>>
        keys == unique([i \in DOMAIN frame |-> keyOf(frame[i])])
    IN  [i \in DOMAIN keys |->
           [appointment_date |-> keys[i][1],
            status |-> keys[i][2],
            count  |-> Len(SelectSeq(frame, LAMBDA r : keyOf(r) = keys[i]))]]

\* groupby(["appointment_date", "status"]).size().reset_index(name="count")
GroupSizes(frame) ==
    LET keyOf(r) == <<r.appointment_date, r.status>>
        keys == SortSeq(unique([i \in DOMAIN frame |-> keyOf(frame[i])]),
                        KeyLess)
    IN  [i \in DOMAIN keys |->
           [appointment_date |-> keys[i][1],
            status |-> keys[i][2],
            count  |-> Len(SelectSeq(frame, LAMBDA r : keyOf(r) = keys[i]))]]

\* What st.date_input does with value=(NaT, NaT) is the library's affair:
\* it raises, or it hands the pair on.  Any table with a row has dates.
DateInputOutcomes(frame) ==
    IF frame = <<>> THEN {"accepts", "raises"} ELSE {"accepts"}

\* Fault-injected variant of Sidebar: the predictor reads the rows of the
\* selected date range.
SidebarOnFiltered(frame, w) ==
    [df   |-> frame,
     risk |-> RiskPredictor(IF Len(w.date_range) = 2
                            THEN DateFilter(frame, w.date_range)
                            ELSE frame,
                            w.pred_reason, w.pred_day),
     csv  |-> to_csv(frame)]

\* the sidebar: the predictor reads the full table, the download button
\* is given the full table as csv
Sidebar(frame, w) ==
    [df   |-> frame,
     risk |-> RiskPredictor(frame, w.pred_reason, w.pred_day),
     csv  |-> to_csv(frame)]

\* Fault-injected variant of ApplyDateFilter: df = df[...], the filter
\* result replaces the loaded table.
ApplyDateFilterInPlace(frame, range) ==
    [df |-> DateFilter(frame, range), filtered_df |-> DateFilter(frame, range)]

\* filtered_df = df[...]: a new frame, df stays what it was
ApplyDateFilter(frame, range) ==
    [df |-> frame, filtered_df |-> DateFilter(frame, range)]

\* a pass that ends with exception e: nothing below the widget of the
\* date range is computed
Stopped(e) ==
    [failed |-> e, filtered_df |-> NotRendered, total |-> NotRendered,
     no_shows |-> NotRendered, rate |-> NotRendered,
     pie_data |-> NotRendered, bar_data |-> NotRendered,
     reason_counts |-> NotRendered, trend_data |-> NotRendered, daily_trend |-> NotRendered]

\* the dashboard below the date input
Dashboard(frame, w) ==
    LET f == ApplyDateFilter(frame, w.date_range)
        t == Len(f.filtered_df)
        n == CountEq(f.filtered_df, "status", NoShow)
        bar == BarData(f.filtered_df, w.reason_choice)
        trend == TrendData(f.filtered_df, w.day_choice)
    IN  [df          |-> f.df,
         failed      |-> "none",
         filtered_df |-> f.filtered_df,
         total       |-> t,
         no_shows    |-> n,
         rate        |-> Rate(n, t),
         pie_data    |-> PieData(f.filtered_df, w.status_choice),
         bar_data    |-> bar,
         reason_counts |-> IF bar # <<>> THEN value_counts(bar)
                           ELSE NotRendered,
         trend_data  |-> trend,
         daily_trend |-> GroupSizes(trend)]

\* One pass of the script over the loaded frame with the widgets at w.
\* date_range[1] of a range with only its start raises IndexError.
ScriptPass(frame, w, lib) ==
    IF lib = "raises" THEN Stopped("ValueError") @@ Sidebar(frame, w)
    ELSE IF Len(w.date_range) < 2
    THEN Stopped("IndexError") @@ Sidebar(frame, w)
    ELSE Dashboard(frame, w) @@ Sidebar(frame, w)

\* df = load_data(), then the rest of the script
RunScript(file, w, lib) == ScriptPass(load_data(file), w, lib)

---------------------------------------------------------------------------
(* Widgets *)

Widgets(r, d, range, sc, rc, dc) ==
    [pred_reason |-> r, pred_day |-> d, date_range |-> range,
     status_choice |-> sc, reason_choice |-> rc, day_choice |-> dc]

Current ==
    Widgets(pred_reason, pred_day, date_range, status_choice,
            reason_choice, day_choice)

\* st.selectbox without a stored value: the first option, None without one
FirstOption(options) == IF options = <<>> THEN None ELSE options[1]

DefaultWidgets(frame) ==
    Widgets(FirstOption(unique(Column(frame, "reason_for_visit"))),
            FirstOption(unique(Column(frame, "day_of_week"))),
            DefaultDateRange(frame), {All}, {All}, {All})

\* The pass after an interaction: every global is computed anew.  A
\* multiselect the pass does not reach is not rendered and comes back with
\* its default.
Rerun(w, lib) ==
    \E g \in {RunScript(csv_file, w, lib)} :
      LET reached == g.failed = "none"
      IN
        /\ csv_file' = csv_file
        /\ df' = g.df
        /\ pred_reason' = w.pred_reason
        /\ pred_day' = w.pred_day
        /\ date_range' = w.date_range
        /\ status_choice' = IF reached THEN w.status_choice ELSE {All}
        /\ reason_choice' = IF reached THEN w.reason_choice ELSE {All}
        /\ day_choice' = IF reached THEN w.day_choice ELSE {All}
        /\ risk' = g.risk
        /\ failed' = g.failed
        /\ filtered_df' = g.filtered_df
        /\ total' = g.total
        /\ no_shows' = g.no_shows
        /\ rate' = g.rate
        /\ pie_data' = g.pie_data
        /\ bar_data' = g.bar_data
        /\ trend_data' = g.trend_data
        /\ daily_trend' = g.daily_trend
        /\ csv' = g.csv
        /\ reason_counts' = g.reason_counts

---------------------------------------------------------------------------
(* Tables of the checked instances *)

Jan1 == <<2024, 1, 1>>
Jan2 == <<2024, 1, 2>>
Jan8 == <<2024, 1, 8>>

Row(d, s, r) ==
    [appointment_date |-> d, status |-> s, reason_for_visit |-> r]

RowsOf(dates, statuses, reasons) ==
    {Row(d, s, r) : d \in dates, s \in statuses, r \in reasons}

\* the files of at least lo and at most hi rows, each row one of kinds
Files(kinds, lo, hi) == UNION {[1..k -> kinds] : k \in lo..hi}

AllRows == RowsOf({Jan1, Jan2, Jan8}, {NoShow, "Scheduled"},
                  {"Fever", "Checkup"})

SessionRows == {Row(Jan1, NoShow, "Fever"), Row(Jan2, "Scheduled", "Checkup")}

CategoryRows == {Row(Jan1, NoShow, "Fever"), Row(Jan1, "Scheduled", "Fever"),
                 Row(Jan2, "Scheduled", "Checkup")}

PieRows == RowsOf({Jan1, Jan2, Jan8}, {NoShow, "Scheduled"}, {"Fever"})

BarRows == RowsOf({Jan1, Jan2}, {NoShow}, {"Fever", "Checkup"})
           \cup {Row(Jan1, "Scheduled", "Fever")}

---------------------------------------------------------------------------
(* Start of a session and the interactions *)

\* The first pass: the file is loaded and every widget has its default.
Start(files) ==
    \E file \in files :
        \E lib \in DateInputOutcomes(file) :
          \E g \in {RunScript(file, DefaultWidgets(load_data(file)), lib)} :
            LET w == DefaultWidgets(load_data(file))
            IN  /\ csv_file = file
                /\ df = g.df
                /\ pred_reason = w.pred_reason
                /\ pred_day = w.pred_day
                /\ date_range = w.date_range
                /\ status_choice = {All}
                /\ reason_choice = {All}
                /\ day_choice = {All}
                /\ risk = g.risk
                /\ failed = g.failed
                /\ filtered_df = g.filtered_df
                /\ total = g.total
                /\ no_shows = g.no_shows
                /\ rate = g.rate
                /\ pie_data = g.pie_data
                /\ bar_data = g.bar_data
                /\ trend_data = g.trend_data
                /\ daily_trend = g.daily_trend
                /\ reason_counts = g.reason_counts
                /\ csv = g.csv

\* the dates the picker offers: min_value to max_value
PickerDates ==
    {d \in {to_datetime(x) : x \in {Jan1, Jan2, Jan8}} :
        /\ df # <<>>
        /\ d >= SeriesMin(Column(df, "appointment_date"))
        /\ d <= SeriesMax(Column(df, "appointment_date"))}

Options(column_name) == Range(get_options_with_all(df, column_name))

SelectReason ==
    \E r \in Range(unique(Column(df, "reason_for_visit"))) :
        /\ r # pred_reason
        /\ Rerun([Current EXCEPT !.pred_reason = r], "accepts")

SelectDay ==
    \E d \in Range(unique(Column(df, "day_of_week"))) :
        /\ d # pred_day
        /\ Rerun([Current EXCEPT !.pred_day = d], "accepts")

\* the first click in the range picker: only the start date is chosen
PickStart ==
    \E s \in PickerDates :
        /\ Len(date_range) = 2
        /\ Rerun([Current EXCEPT !.date_range = <<s>>], "accepts")

\* the second click: the end date
PickEnd ==
    \E e \in PickerDates :
        /\ Len(date_range) = 1
        /\ e >= date_range[1]
        /\ Rerun([Current EXCEPT !.date_range = <<date_range[1], e>>],
                 "accepts")

SetStatusChoice ==
    \E c \in SUBSET Options("status") :
        /\ failed = "none"
        /\ c # status_choice
        /\ Rerun([Current EXCEPT !.status_choice = c], "accepts")

SetReasonChoice ==
    \E c \in SUBSET Options("reason_for_visit") :
        /\ failed = "none"
        /\ c # reason_choice
        /\ Rerun([Current EXCEPT !.reason_choice = c], "accepts")

SetDayChoice ==
    \E c \in SUBSET Options("day_of_week") :
        /\ failed = "none"
        /\ c # day_choice
        /\ Rerun([Current EXCEPT !.day_choice = c], "accepts")

\* a click on the download button hands out csv and runs the script again
Download ==
    /\ csv = to_csv(df)
    /\ Rerun(Current, "accepts")

---------------------------------------------------------------------------
(* Specifications *)

\* a session with every interaction
Init == Start(Files(SessionRows, 1, MaxRows))

Next ==
    \/ SelectReason
    \/ SelectDay
    \/ PickStart
    \/ PickEnd
    \/ SetStatusChoice
    \/ SetReasonChoice
    \/ SetDayChoice
    \/ Download

Spec == Init /\ [][Next]_vars

\* the predictor over every small table, the empty one included
InitRisk == Start(Files(AllRows, 0, MaxChartRows))

NextRisk == SelectReason \/ SelectDay

SpecRisk == InitRisk /\ [][NextRisk]_vars

\* the predictor over tables with up to five rows of one combination
InitCategory == Start(Files(CategoryRows, 0, MaxRiskRows))

SpecCategory == InitCategory /\ [][NextRisk]_vars

\* the date range and the status filter
InitPie == Start(Files(PieRows, 0, MaxChartRows))

NextPie == PickStart \/ PickEnd \/ SetStatusChoice

SpecPie == InitPie /\ [][NextPie]_vars

\* the date range and the reason filter
InitBar == Start(Files(BarRows, 0, MaxChartRows))

NextBar == PickStart \/ PickEnd \/ SetReasonChoice

SpecBar == InitBar /\ [][NextBar]_vars

\* the date range and the day-of-week filter
NextTrend == PickStart \/ PickEnd \/ SetDayChoice

SpecTrend == InitPie /\ [][NextTrend]_vars

---------------------------------------------------------------------------
(* Properties *)

\* the day of the week of row i of the file
DayOfRow(i) == day_name(to_datetime(csv_file[i].appointment_date))

\* the rows of the file with the selected reason and day of the week
Combination ==
    {i \in DOMAIN csv_file : /\ csv_file[i].reason_for_visit = pred_reason
                             /\ DayOfRow(i) = pred_day}

Missed(rows) == {i \in rows : csv_file[i].status = NoShow}

\* the three rows of the worked example
ExampleFile == <<Row(Jan1, NoShow, "Fever"), Row(Jan1, "Scheduled", "Fever"),
                 Row(Jan8, NoShow, "Fever")>>

\* C1: the predictor reports InsufficientData exactly when no row of the
\* full table has the selected reason and day of the week (so always on
\* the empty table); otherwise the sample size is the number of those rows
\* and the probability is the share of No-show rows among them.
C1_RiskEstimate ==
    /\ risk.outcome \in {"InsufficientData", "Estimate"}
    /\ risk.outcome = "InsufficientData" <=> Combination = {}
    /\ csv_file = <<>> => risk.outcome = "InsufficientData"
    /\ Combination # {} =>
         /\ risk.total_risk_cases = Cardinality(Combination)
         /\ risk.prob.num * Cardinality(Combination)
              = 100 * Cardinality(Missed(Combination)) * risk.prob.den

\* a table with rows in which the selected combination does not occur
C1_Witness ==
    /\ csv_file # <<>>
    /\ pred_reason \in {csv_file[i].reason_for_visit : i \in DOMAIN csv_file}
    /\ risk.outcome = "InsufficientData"

\* C2: the risk category depends on the probability alone: High iff it is
\* above 0.5, Moderate iff it is above 0.2 and at most 0.5, Low iff it is at
\* most 0.2; exactly 0.5 is not High and exactly 0.2 is not Moderate.
C2_Category ==
    risk.outcome = "Estimate" =>
        LET k == Cardinality(Missed(Combination))
            n == Cardinality(Combination)
        IN  /\ risk.level = "High" <=> 2 * k > n
            /\ risk.level = "Moderate" <=> (5 * k > n /\ 2 * k <= n)
            /\ risk.level = "Low" <=> 5 * k <= n

\* one missed appointment in five: a probability of exactly 0.2
C2_Witness ==
    /\ risk.outcome = "Estimate"
    /\ Cardinality(Combination) = 5
    /\ Cardinality(Missed(Combination)) = 1
    /\ risk.level = "Low"

\* C3 as stated: on the three example rows the estimate for (Fever, Monday)
\* has sample size 3, probability 2/3 and category Moderate.
C3_ExampleModerate ==
    (csv_file = ExampleFile /\ pred_reason = "Fever" /\ pred_day = "Monday")
    => /\ risk.outcome = "Estimate"
       /\ risk.total_risk_cases = 3
       /\ 3 * risk.prob.num = 2 * 100 * risk.prob.den
       /\ risk.level = "Moderate"

\* C3 amended: on the three example rows the estimate for (Fever, Monday)
\* has sample size 3, probability 2/3 and category High.
C3_ExampleHigh ==
    (csv_file = ExampleFile /\ pred_reason = "Fever" /\ pred_day = "Monday")
    => /\ risk.outcome = "Estimate"
       /\ risk.total_risk_cases = 3
       /\ 3 * risk.prob.num = 2 * 100 * risk.prob.den
       /\ risk.level = "High"

\* the example table with (Fever, Monday) estimated
C3_Witness ==
    /\ csv_file = ExampleFile
    /\ pred_reason = "Fever"
    /\ pred_day = "Monday"
    /\ risk.outcome = "Estimate"

\* C4: the estimate is computed over the full table: as long as the
\* selected reason and day stay the same, no change of the date range or of
\* a multiselect changes what the predictor shows.
C4_EstimateIgnoresFilters ==
    [][(pred_reason' = pred_reason /\ pred_day' = pred_day) => risk' = risk]_vars

\* rows of the estimated combination lie outside the selected date range
\* and a multiselect is restricted
C4_Witness ==
    /\ failed = "none"
    /\ risk.outcome = "Estimate"
    /\ \E i \in Combination :
          to_datetime(csv_file[i].appointment_date) > date_range[2]
    /\ All \notin status_choice
    /\ All \notin reason_choice
    /\ All \notin day_choice

\* the rows of the file whose date lies in the selected range
InRange ==
    {i \in DOMAIN csv_file :
        /\ to_datetime(csv_file[i].appointment_date) >= date_range[1]
        /\ to_datetime(csv_file[i].appointment_date) <= date_range[2]}

\* C5: the headline no-show rate is 0 when no row lies in the date range
\* (nothing is divided by zero), and otherwise it is the share of No-show
\* rows among the rows of the range, between 0 and 100 percent.
C5_NoShowRate ==
    failed = "none" =>
        /\ total = Cardinality(InRange)
        /\ no_shows = Cardinality(Missed(InRange))
        /\ rate.den > 0
        /\ InRange = {} => rate.num = 0
        /\ InRange # {} =>
             /\ rate.num * Cardinality(InRange)
                  = 100 * Cardinality(Missed(InRange)) * rate.den
             /\ 0 <= rate.num
             /\ rate.num <= 100 * rate.den

\* a table with rows, none of them in the selected range
C5_Witness ==
    /\ failed = "none"
    /\ csv_file # <<>>
    /\ total = 0
    /\ rate.num = 0

Occurrences(frame, row) == Cardinality({i \in DOMAIN frame : frame[i] = row})

\* view holds exactly the rows of the loaded table that satisfy P
ExactlyRows(view, P(_)) ==
    \A row \in Range(df) \cup Range(view) :
        Occurrences(view, row) = IF P(row) THEN Occurrences(df, row) ELSE 0

DateInRange(row) ==
    /\ row.appointment_date >= date_range[1]
    /\ row.appointment_date <= date_range[2]

Accepted(choice, value) == All \in choice \/ value \in choice

\* C6: every filter returns exactly the rows whose date lies in the
\* inclusive range and whose value is accepted in each dimension it
\* restricts; a multiselect with nothing selected matches no row, one with
\* "All" selected matches every row of the date range.
C6_Filter ==
    failed = "none" =>
        /\ ExactlyRows(filtered_df, DateInRange)
        /\ ExactlyRows(pie_data,
              LAMBDA r : DateInRange(r) /\ Accepted(status_choice, r.status))
        /\ ExactlyRows(bar_data,
              LAMBDA r : /\ DateInRange(r)
                         /\ r.status = NoShow
                         /\ Accepted(reason_choice, r.reason_for_visit))
        /\ ExactlyRows(trend_data,
              LAMBDA r : DateInRange(r) /\ Accepted(day_choice, r.day_of_week))
        /\ status_choice = {} => pie_data = <<>>
        /\ reason_choice = {} => bar_data = <<>>
        /\ day_choice = {} => trend_data = <<>>
        /\ All \in status_choice => pie_data = filtered_df
        /\ All \in day_choice => trend_data = filtered_df

\* nothing selected in the status filter while rows lie in the date range
C6_Witness ==
    /\ failed = "none"
    /\ status_choice = {}
    /\ filtered_df # <<>>
    /\ Len(filtered_df) < Len(df)
    /\ pie_data = <<>>

\* C7: the loaded table is never changed: after every interaction it has
\* the rows and the field values it had after loading.
C7_TableImmutable == [][df' = df]_vars

\* filters that leave out rows of the table have been applied
C7_Witness ==
    /\ failed = "none"
    /\ Len(filtered_df) < Len(df)
    /\ Len(pie_data) < Len(filtered_df)
    /\ All \notin reason_choice
    /\ All \notin day_choice
    /\ df = load_data(csv_file)

\* C8: no pass of the script fails, whatever the widgets deliver.
C8_NoPassFails == failed = "none"

\* the No-show rows of the date range with an accepted reason
MissedShown ==
    {i \in Missed(InRange) :
        Accepted(reason_choice, csv_file[i].reason_for_visit)}

\* one line per reason of the shown No-show rows, with its number of rows
CountsPerReason ==
    /\ Len(reason_counts) =
         Cardinality({csv_file[i].reason_for_visit : i \in MissedShown})
    /\ \A j \in DOMAIN reason_counts :
         reason_counts[j].Count =
           Cardinality({i \in MissedShown :
              csv_file[i].reason_for_visit = reason_counts[j].Reason})
    /\ \A j \in DOMAIN reason_counts : reason_counts[j].Count > 0
    /\ \A j, k \in DOMAIN reason_counts :
         j # k => reason_counts[j].Reason # reason_counts[k].Reason

\* C9 as stated: the reason counts hold one line per reason of the No-show
\* rows, highest count first, equal counts by reason name ascending.
C9_SortedWithTieBreak ==
    (failed = "none" /\ MissedShown # {}) =>
        /\ CountsPerReason
        /\ \A j \in 1..(Len(reason_counts) - 1) :
             \/ reason_counts[j].Count > reason_counts[j + 1].Count
             \/ /\ reason_counts[j].Count = reason_counts[j + 1].Count
                /\ StrLess(reason_counts[j].Reason, reason_counts[j + 1].Reason)

\* C9 amended: the reason counts hold one line per reason of the No-show
\* rows, highest count first; equal counts are not ordered by reason name.
C9_SortedByCount ==
    (failed = "none" /\ MissedShown # {}) =>
        /\ CountsPerReason
        /\ \A j \in 1..(Len(reason_counts) - 1) :
             reason_counts[j].Count >= reason_counts[j + 1].Count

\* two reasons with different counts
C9_Witness ==
    /\ failed = "none"
    /\ Len(bar_data) = 3
    /\ Len(reason_counts) = 2
    /\ reason_counts[1].Count = 2
    /\ reason_counts[2].Count = 1

\* the rows of the date range with an accepted day of the week
TrendShown == {i \in InRange : Accepted(day_choice, DayOfRow(i))}

PairOfRow(i) == <<to_datetime(csv_file[i].appointment_date), csv_file[i].status>>

\* C10: the daily trend holds one entry per (date, status) pair of the
\* subset, with the number of its rows, by date and then status ascending,
\* never an entry with count 0; on the three example rows it is
\* (2024-01-01, No-show, 1), (2024-01-01, Scheduled, 1),
\* (2024-01-08, No-show, 1).
C10_DailyTrend ==
    failed = "none" =>
        /\ Len(daily_trend) = Cardinality({PairOfRow(i) : i \in TrendShown})
        /\ \A j \in DOMAIN daily_trend :
             /\ daily_trend[j].count > 0
             /\ daily_trend[j].count =
                  Cardinality({i \in TrendShown : PairOfRow(i) =
                     <<daily_trend[j].appointment_date, daily_trend[j].status>>})
        /\ \A j \in 1..(Len(daily_trend) - 1) :
             \/ daily_trend[j].appointment_date
                  < daily_trend[j + 1].appointment_date
             \/ /\ daily_trend[j].appointment_date
                     = daily_trend[j + 1].appointment_date
                /\ daily_trend[j].status = NoShow
                /\ daily_trend[j + 1].status = "Scheduled"
        /\ (csv_file = ExampleFile /\ TrendShown = DOMAIN csv_file) =>
             daily_trend =
               <<[appointment_date |-> to_datetime(Jan1),
                  status |-> NoShow, count |-> 1],
                 [appointment_date |-> to_datetime(Jan1),
                  status |-> "Scheduled", count |-> 1],
                 [appointment_date |-> to_datetime(Jan8),
                  status |-> NoShow, count |-> 1]>>

\* the trend of the three example rows
C10_Witness ==
    /\ failed = "none"
    /\ csv_file = ExampleFile
    /\ Len(daily_trend) = 3

===========================================================================
